---- MODULE Spec2Model ----
(***************************************************************************)
(* A model of the Graph class template of src/Graph.h: an adjacency-list   *)
(* graph whose vertices live in an unordered_map from Key to a shared      *)
(* pointer to Vertex, every Vertex holding a vector of shared pointers to  *)
(* its Edges and every Edge an array of the shared pointers to its two     *)
(* vertices.                                                               *)
(*                                                                         *)
(* Objects are modelled by their addresses: VertexAddrs and EdgeAddrs are  *)
(* the addresses operator new can hand out, vertexObj and edgeObj are the  *)
(* heap.  An address holds FreeVertex or FreeEdge while no object lives    *)
(* there; an object is destroyed when the last shared_ptr to it goes away. *)
(* Every public method is one action, taken as a whole: the class is       *)
(* single-threaded.  The assert()s of the source are live (the build the   *)
(* documentation describes) and a failed assert aborts the process.  A     *)
(* query that returns changes no state; what it returns is the value of    *)
(* the operator GetVertex, GetEdge or GetKey, or of size.                  *)
(***************************************************************************)
EXTENDS Integers, Sequences, FiniteSets, TLC

(* Bounds of the model. *)
MaxSize == 3            \* addVertex is not explored beyond this value of size
NumEdgeAddrs == 3       \* edges that can be alive at the same time

(* The keys of the model. *)
Keys == {"A", "B", "C"}

(* The inputs the callers draw from: Spec has three keys and one payload   *)
(* value, SpecData two keys and two payload values.                        *)
VOne == {"p"}
EOne == {"x"}
KeysData == {"A", "B"}
VData == {"p", "q"}
EData == {"x", "y"}

(* Addresses: one per key and a spare one for vertices, see NewVertexAddr. *)
VertexAddrs == 1..(Cardinality(Keys) + 1)
EdgeAddrs == 1..NumEdgeAddrs

None == "none"          \* no value: an argument or a result the call does not have
Null == 0               \* the null pointer; also "no entry" in the map

VARIABLES
    vertices,           \* Graph::vertices: Key -> address of its Vertex (Null: no entry)
    size,               \* Graph::size
    vertexObj,          \* the Vertex objects: address -> [edges, data]
    edgeObj,            \* the Edge objects: address -> [vertices, data]
    last,               \* the call made last: method, arguments, outcome
    history,            \* the addVertex and removeVertex calls that have returned
    undone              \* the addEdge call that the removeEdge made last followed

vars == <<vertices, size, vertexObj, edgeObj, last, history, undone>>

(* struct Vertex as constructed: no edges, the given data. *)
Vertex(data) == [edges |-> <<>>, data |-> data]

(* struct Edge as constructed: the array of its two vertices, the data. *)
Edge(new_edge_vertices, data) == [vertices |-> new_edge_vertices, data |-> data]

(* What an address holds while no object lives there. *)
FreeVertex == [edges |-> <<>>, data |-> None]
FreeEdge == [vertices |-> [i \in {0, 1} |-> Null], data |-> None]

(* The call made last that changed the graph or ended the run (a query     *)
(* that returns changes nothing).  res is "ok", "out_of_range"             *)
(* (unordered_map::at threw), "assert" (an assert failed) or "ub"          *)
(* (undefined behaviour); vertex is the Vertex passed to getKey;           *)
(* iterations counts the passes of removeVertex through its while loop.    *)
Call(op, key_0, key_1, data, vertex, res, iterations) ==
    [op |-> op, key_0 |-> key_0, key_1 |-> key_1, data |-> data,
     vertex |-> vertex, res |-> res, iterations |-> iterations]

(* The calls so far, as long as no two addVertex calls had the same key:   *)
(* how many addVertex calls returned (adds) and with which keys, and how   *)
(* many removeVertex calls returned (removes).  Once a key has come a      *)
(* second time the counting stops (NoHistory).                              *)
History(adds, removes, keys) ==
    [adds |-> adds, removes |-> removes, keys |-> keys, distinct |-> TRUE]

NoHistory == [adds |-> 0, removes |-> 0, keys |-> {}, distinct |-> FALSE]

AfterAddVertex(h, key) ==
    IF h.distinct /\ key \notin h.keys
    THEN History(h.adds + 1, h.removes, h.keys \cup {key})
    ELSE NoHistory

AfterRemoveVertex(h) ==
    IF h.distinct THEN History(h.adds, h.removes + 1, h.keys) ELSE NoHistory

(* The call c when it was a call of op with these keys, no call otherwise. *)
NoCall == Call(None, None, None, None, Null, None, 0)

Followed(c, op, key_0, key_1) ==
    IF c.op = op /\ c.key_0 = key_0 /\ c.key_1 = key_1 THEN c ELSE NoCall

(* A failed assert aborts the process, an exception no caller catches      *)
(* terminates it, and after undefined behaviour nothing is known: the run  *)
(* is followed no further.                                                  *)
Running == last.res = "ok"

(* unordered_map::at finds the key (it throws std::out_of_range otherwise). *)
Has(m, key) == m[key] # Null

(* The keys of the unordered_map. *)
KeySet(m) == {k \in Keys : Has(m, k)}

(* MapInsert overwriting the entry of a key that is present. *)
MapInsert_overwrite(m, key, v) == [m EXCEPT ![key] = v]

(* unordered_map::insert: an entry whose key is present is left as it is. *)
MapInsert(m, key, v) == IF Has(m, key) THEN m ELSE [m EXCEPT ![key] = v]

(* unordered_map::erase by key. *)
MapErase(m, key) == [m EXCEPT ![key] = Null]

(* ---- std::vector of shared_ptr<Edge> ---- *)

push_back(s, e) == Append(s, e)

pop_back(s) == SubSeq(s, 1, Len(s) - 1)

(* *(--s.end()) *)
Back(s) == s[Len(s)]

(* std::find: the position of the first element equal to e, Len(s)+1 (end()) if none. *)
Find(s, e) ==
    IF \E i \in 1..Len(s) : s[i] = e
    THEN CHOOSE i \in 1..Len(s) : s[i] = e /\ \A j \in 1..(i - 1) : s[j] # e
    ELSE Len(s) + 1

SwapRemove_popOnly(s, i) == pop_back(s)

(* *it = *(--s.end()); s.pop_back();  for an iterator it at position i <= Len(s) *)
SwapRemove(s, i) == pop_back([s EXCEPT ![i] = Back(s)])

(* ---- shared_ptr ---- *)

(* The edges some living Vertex lists. *)
ListedEdges(vo) ==
    {e \in EdgeAddrs : \E v \in VertexAddrs :
        vo[v] # FreeVertex /\ \E i \in 1..Len(vo[v].edges) : vo[v].edges[i] = e}

(* The vertices the map or a living Edge points to. *)
HeldVertices(m, eo) ==
    {v \in VertexAddrs :
        \/ \E k \in Keys : m[k] = v
        \/ \E e \in EdgeAddrs : eo[e] # FreeEdge /\
              (eo[e].vertices[0] = v \/ eo[e].vertices[1] = v)}

(* The heap when a method returns: an Edge no vector lists any more is     *)
(* destroyed, and so is a Vertex that neither the map nor a living Edge    *)
(* points to (its vector is empty by then: removeVertex has emptied it and *)
(* a Vertex that never entered the map never had an edge).                  *)
ReleaseEdges(vo, eo) ==
    [e \in EdgeAddrs |-> IF e \in ListedEdges(vo) THEN eo[e] ELSE FreeEdge]

ReleaseVertices(m, vo, eo) ==
    [v \in VertexAddrs |->
        IF v \in HeldVertices(m, ReleaseEdges(vo, eo)) THEN vo[v] ELSE FreeVertex]

Init ==
    /\ vertices = [k \in Keys |-> Null]
    /\ size = 0
    /\ vertexObj = [v \in VertexAddrs |-> FreeVertex]
    /\ edgeObj = [e \in EdgeAddrs |-> FreeEdge]
    /\ last = Call("Graph", None, None, None, Null, "ok", 0)
    /\ history = History(0, 0, {})
    /\ undone = NoCall

(* operator new hands out an address no living object has.  The code only *)
(* ever compares addresses for equality (lines 203, 224, 258, 265), so the *)
(* model fixes the allocator: a Vertex made for a key that is not in the   *)
(* map goes to the address set aside for that key, a Vertex made for a key *)
(* that is in the map (and dropped again when addVertex returns) to the    *)
(* spare address; an Edge goes to the least free address.                  *)
KeyAddr(key) == CASE key = "A" -> 1 [] key = "B" -> 2 [] OTHER -> 3

SpareAddr == Cardinality(Keys) + 1

NewVertexAddr(m, key) == IF Has(m, key) THEN SpareAddr ELSE KeyAddr(key)

NewEdgeAddr(eo) == CHOOSE e \in EdgeAddrs :
    eo[e] = FreeEdge /\ \A f \in EdgeAddrs : eo[f] = FreeEdge => e <= f

(* ---- helpers of the methods ---- *)

(* DistinctKeys with the assert compiled out. *)
DistinctKeys_unchecked(key_0, key_1) == TRUE

(* assert(key_0 != key_1) *)
DistinctKeys(key_0, key_1) == key_0 # key_1

(* NewEdgeVertices with vertex_0 written to both slots. *)
NewEdgeVertices_sameSlot(vertex_0, vertex_1) == [i \in {0, 1} |-> vertex_0]

(* NewEdgeVertices with the two slots exchanged. *)
NewEdgeVertices_swapped(vertex_0, vertex_1) ==
    [i \in {0, 1} |-> IF i = 0 THEN vertex_1 ELSE vertex_0]

(* new_edge_vertices = { vertex_0, vertex_1 } *)
NewEdgeVertices(vertex_0, vertex_1) ==
    [i \in {0, 1} |-> IF i = 0 THEN vertex_0 ELSE vertex_1]

(* AttachEdge without the second push_back. *)
AttachEdge_oneSide(vo, vertex_0, vertex_1, new_edge) ==
    [vo EXCEPT ![vertex_0].edges = push_back(@, new_edge)]

(* vertex_0->edges.push_back(new_edge); vertex_1->edges.push_back(new_edge); *)
AttachEdge(vo, vertex_0, vertex_1, new_edge) ==
    LET vo1 == [vo EXCEPT ![vertex_0].edges = push_back(@, new_edge)]
    IN  [vo1 EXCEPT ![vertex_1].edges = push_back(@, new_edge)]

(* Matches looking at slot 1 only. *)
Matches_slot1(eo, e, vertex_1) == eo[e].vertices[1] = vertex_1

(* Matches looking at slot 0 only. *)
Matches_slot0(eo, e, vertex_1) == eo[e].vertices[0] = vertex_1

(* The test of the scan of getEdge and removeEdge: the loop stops at an    *)
(* edge with vertex_1 in slot 0 or in slot 1.                               *)
Matches(eo, e, vertex_1) ==
    eo[e].vertices[0] = vertex_1 \/ eo[e].vertices[1] = vertex_1

(* FindEdgeTo stopping at the last such edge instead of the first. *)
FindEdgeTo_lastMatch(s, eo, vertex_1) ==
    IF \E i \in 1..Len(s) : Matches(eo, s[i], vertex_1)
    THEN CHOOSE i \in 1..Len(s) :
            /\ Matches(eo, s[i], vertex_1)
            /\ \A j \in (i + 1)..Len(s) : ~Matches(eo, s[j], vertex_1)
    ELSE Len(s) + 1

(* The scan itself: the position in s of the first such edge, Len(s)+1     *)
(* (end()) if there is none.                                                *)
FindEdgeTo(s, eo, vertex_1) ==
    IF \E i \in 1..Len(s) : Matches(eo, s[i], vertex_1)
    THEN CHOOSE i \in 1..Len(s) :
            /\ Matches(eo, s[i], vertex_1)
            /\ \A j \in 1..(i - 1) : ~Matches(eo, s[j], vertex_1)
    ELSE Len(s) + 1

(* FindOldEdge taking the last element for the one looked for. *)
FindOldEdge_last(s, eo, old_edge, from_vertex) ==
    IF Len(s) = 0 THEN 1 ELSE Len(s)

(* FindOldEdge scanning again for any edge to the other vertex. *)
FindOldEdge_anyEdge(s, eo, old_edge, from_vertex) == FindEdgeTo(s, eo, from_vertex)

(* The position of old_edge in the vector s of the vertex at its other     *)
(* end, as removeVertex and removeEdge look it up: std::find by pointer,   *)
(* which looks neither at the edges' slots (eo) nor at the vertex the      *)
(* removal started from (from_vertex).                                      *)
FindOldEdge(s, eo, old_edge, from_vertex) == Find(s, old_edge)

(* ConnectedVertex always taking slot 1. *)
ConnectedVertex_slot1(eo, old_edge, old_vertex) == eo[old_edge].vertices[1]

(* The vertex at the other end of old_edge, seen from old_vertex. *)
ConnectedVertex(eo, old_edge, old_vertex) ==
    IF old_vertex = eo[old_edge].vertices[0]
    THEN eo[old_edge].vertices[1]
    ELSE eo[old_edge].vertices[0]

(* One pass through the body of removeVertex's while loop (the vector of   *)
(* old_vertex is not empty): the edge and the vertex it works on, whether  *)
(* std::find found the edge (writing through end() is undefined            *)
(* behaviour), and the vectors the pass leaves.                             *)
RemoveVertexStep(vo, eo, old_vertex) ==
    LET old_edge == Back(vo[old_vertex].edges)
        connected_vertex == ConnectedVertex(eo, old_edge, old_vertex)
        vo1 == [vo EXCEPT ![old_vertex].edges = pop_back(@)]
        old_edge_iterator ==
            FindOldEdge(vo1[connected_vertex].edges, eo, old_edge, old_vertex)
        found == old_edge_iterator <= Len(vo1[connected_vertex].edges)
    IN  [old_edge |-> old_edge,
         connected_vertex |-> connected_vertex,
         found |-> found,
         vertexObj |-> IF found
                       THEN [vo1 EXCEPT ![connected_vertex].edges =
                                           SwapRemove(@, old_edge_iterator)]
                       ELSE vo1]

(* The while loop of removeVertex, run to its end: the vectors it leaves,  *)
(* the number of iterations, and whether it ran into undefined behaviour.  *)
RECURSIVE RemoveVertexLoop(_, _, _, _)
RemoveVertexLoop(vo, eo, old_vertex, n) ==
    IF Len(vo[old_vertex].edges) = 0
    THEN [vertexObj |-> vo, iterations |-> n, ub |-> FALSE]
    ELSE LET step == RemoveVertexStep(vo, eo, old_vertex)
         IN  IF ~step.found
             THEN [vertexObj |-> step.vertexObj, iterations |-> n + 1, ub |-> TRUE]
             ELSE RemoveVertexLoop(step.vertexObj, eo, old_vertex, n + 1)

(* SameVertex comparing the payloads instead of the addresses. *)
SameVertex_byData(vo, entry_vertex, vertex) == vo[entry_vertex].data = vo[vertex].data

(* getKey's scan of the map: the key of the entry whose pointer is &vertex. *)
(* The order of the scan is the map's own; no two entries hold the same     *)
(* pointer, so the entry found does not depend on it.                       *)
SameVertex(vo, entry_vertex, vertex) == entry_vertex = vertex

KeyFound(m, vo, vertex) == \E k \in Keys : Has(m, k) /\ SameVertex(vo, m[k], vertex)

KeyOf(m, vo, vertex) == CHOOSE k \in Keys : Has(m, k) /\ SameVertex(vo, m[k], vertex)

(* ---- the public methods ---- *)

(* ++size *)
Increment(n) == n + 1

addVertex(key, data) ==
    /\ Running
    /\ size < MaxSize
    /\ LET new_vertex == NewVertexAddr(vertices, key)
           vo == [vertexObj EXCEPT ![new_vertex] = Vertex(data)]
           m == MapInsert(vertices, key, new_vertex)
       IN  /\ vertices' = m
           /\ vertexObj' = ReleaseVertices(m, vo, edgeObj)
           /\ edgeObj' = ReleaseEdges(vo, edgeObj)
    /\ size' = Increment(size)
    /\ last' = Call("addVertex", key, None, data, Null, "ok", 0)
    /\ history' = AfterAddVertex(history, key)
    /\ undone' = NoCall

(* What addEdge does to the heap when its keys are distinct and in the map. *)
AddEdgeHeap(m, vo, eo, key_0, key_1, data) ==
    LET vertex_0 == m[key_0]
        vertex_1 == m[key_1]
        new_edge == NewEdgeAddr(eo)
        eo1 == [eo EXCEPT
                  ![new_edge] = Edge(NewEdgeVertices(vertex_0, vertex_1), data)]
        vo1 == AttachEdge(vo, vertex_0, vertex_1, new_edge)
    IN  [vertexObj |-> ReleaseVertices(m, vo1, eo1),
         edgeObj |-> ReleaseEdges(vo1, eo1)]

addEdge(key_0, key_1, data) ==
    /\ Running
    /\ \E e \in EdgeAddrs : edgeObj[e] = FreeEdge
    /\ IF ~DistinctKeys(key_0, key_1)
       THEN /\ last' = Call("addEdge", key_0, key_1, data, Null, "assert", 0)
            /\ UNCHANGED <<vertices, size, vertexObj, edgeObj, history, undone>>
       ELSE IF ~Has(vertices, key_0) \/ ~Has(vertices, key_1)
       THEN /\ last' = Call("addEdge", key_0, key_1, data, Null, "out_of_range", 0)
            /\ UNCHANGED <<vertices, size, vertexObj, edgeObj, history, undone>>
       ELSE LET heap == AddEdgeHeap(vertices, vertexObj, edgeObj, key_0, key_1, data)
            IN  /\ vertexObj' = heap.vertexObj
                /\ edgeObj' = heap.edgeObj
                /\ last' = Call("addEdge", key_0, key_1, data, Null, "ok", 0)
                /\ undone' = NoCall
                /\ UNCHANGED <<vertices, size, history>>

(* What getVertex does: the outcome and, when it returns, the Vertex. *)
GetVertex(m, key) ==
    IF ~Has(m, key) THEN [res |-> "out_of_range", ret |-> Null]
    ELSE [res |-> "ok", ret |-> m[key]]

getVertex(key) ==
    /\ Running
    /\ LET r == GetVertex(vertices, key)
       IN  IF r.res # "ok"
           THEN last' = Call("getVertex", key, None, None, Null, r.res, 0)
           ELSE UNCHANGED last
    /\ UNCHANGED <<vertices, size, vertexObj, edgeObj, history, undone>>

(* What getEdge does: the outcome and, when it returns, the edge. *)
GetEdge(m, vo, eo, key_0, key_1) ==
    IF ~DistinctKeys(key_0, key_1) THEN [res |-> "assert", ret |-> Null]
    ELSE IF ~Has(m, key_0) \/ ~Has(m, key_1) THEN [res |-> "out_of_range", ret |-> Null]
    ELSE LET vertex_0 == m[key_0]
             vertex_1 == m[key_1]
             edge_iterator == FindEdgeTo(vo[vertex_0].edges, eo, vertex_1)
         IN  IF edge_iterator > Len(vo[vertex_0].edges)
             THEN [res |-> "assert", ret |-> Null]
             ELSE [res |-> "ok", ret |-> vo[vertex_0].edges[edge_iterator]]

getEdge(key_0, key_1) ==
    /\ Running
    /\ LET r == GetEdge(vertices, vertexObj, edgeObj, key_0, key_1)
       IN  IF r.res # "ok"
           THEN last' = Call("getEdge", key_0, key_1, None, Null, r.res, 0)
           ELSE UNCHANGED last
    /\ UNCHANGED <<vertices, size, vertexObj, edgeObj, history, undone>>

(* What getKey does for the Vertex at address vertex. *)
GetKey(m, vo, vertex) ==
    IF ~KeyFound(m, vo, vertex) THEN [res |-> "assert", ret |-> None]
    ELSE [res |-> "ok", ret |-> KeyOf(m, vo, vertex)]

getKey(vertex) ==
    /\ Running
    /\ LET r == GetKey(vertices, vertexObj, vertex)
       IN  IF r.res # "ok"
           THEN last' = Call("getKey", None, None, None, vertex, r.res, 0)
           ELSE UNCHANGED last
    /\ UNCHANGED <<vertices, size, vertexObj, edgeObj, history, undone>>

getSize ==
    /\ Running
    /\ UNCHANGED <<vertices, size, vertexObj, edgeObj, last, history, undone>>

(* Decrement with the decrement forgotten. *)
Decrement_forgotten(n) == n

(* --size *)
Decrement(n) == n - 1

removeVertex(key) ==
    /\ Running
    /\ IF ~Has(vertices, key)
       THEN /\ last' = Call("removeVertex", key, None, None, Null, "out_of_range", 0)
            /\ UNCHANGED <<vertices, size, vertexObj, edgeObj, history, undone>>
       ELSE LET old_vertex == vertices[key]
                loop == RemoveVertexLoop(vertexObj, edgeObj, old_vertex, 0)
            IN  IF loop.ub
                THEN /\ last' = Call("removeVertex", key, None, None, Null, "ub", 0)
                     /\ UNCHANGED <<vertices, size, vertexObj, edgeObj, history, undone>>
                ELSE LET m == MapErase(vertices, key)
                     IN  /\ vertices' = m
                         /\ vertexObj' = ReleaseVertices(m, loop.vertexObj, edgeObj)
                         /\ edgeObj' = ReleaseEdges(loop.vertexObj, edgeObj)
                         /\ size' = Decrement(size)
                         /\ last' = Call("removeVertex", key, None, None, Null, "ok",
                                         loop.iterations)
                         /\ history' = AfterRemoveVertex(history)
                         /\ undone' = NoCall

(* What removeEdge does: the outcome and, when it returns, the heap it     *)
(* leaves (the heap as it was otherwise).                                   *)
RemoveEdgeOutcome(m, vo, eo, key_0, key_1) ==
    IF ~DistinctKeys(key_0, key_1)
    THEN [res |-> "assert", vertexObj |-> vo, edgeObj |-> eo]
    ELSE IF ~Has(m, key_0) \/ ~Has(m, key_1)
    THEN [res |-> "out_of_range", vertexObj |-> vo, edgeObj |-> eo]
    ELSE LET vertex_0 == m[key_0]
             vertex_1 == m[key_1]
             current_edge_iterator == FindEdgeTo(vo[vertex_0].edges, eo, vertex_1)
         IN  IF current_edge_iterator > Len(vo[vertex_0].edges)
             THEN [res |-> "assert", vertexObj |-> vo, edgeObj |-> eo]
             ELSE LET old_edge == vo[vertex_0].edges[current_edge_iterator]
                      vo1 == [vo EXCEPT ![vertex_0].edges =
                                 SwapRemove(@, current_edge_iterator)]
                      old_edge_iterator ==
                          FindOldEdge(vo1[vertex_1].edges, eo, old_edge, vertex_0)
                  IN  IF old_edge_iterator > Len(vo1[vertex_1].edges)
                      THEN [res |-> "ub", vertexObj |-> vo, edgeObj |-> eo]
                      ELSE LET vo2 == [vo1 EXCEPT ![vertex_1].edges =
                                          SwapRemove(@, old_edge_iterator)]
                           IN  [res |-> "ok",
                                vertexObj |-> ReleaseVertices(m, vo2, eo),
                                edgeObj |-> ReleaseEdges(vo2, eo)]

removeEdge(key_0, key_1) ==
    /\ Running
    /\ LET r == RemoveEdgeOutcome(vertices, vertexObj, edgeObj, key_0, key_1)
       IN  /\ vertexObj' = r.vertexObj
           /\ edgeObj' = r.edgeObj
           /\ last' = Call("removeEdge", key_0, key_1, None, Null, r.res, 0)
    /\ undone' = Followed(last, "addEdge", key_0, key_1)
    /\ UNCHANGED <<vertices, size, history>>

Next ==
    \/ \E key \in Keys, data \in VOne : addVertex(key, data)
    \/ \E key_0, key_1 \in Keys, data \in EOne : addEdge(key_0, key_1, data)
    \/ \E key \in Keys : getVertex(key)
    \/ \E key_0, key_1 \in Keys : getEdge(key_0, key_1)
    \/ \E vertex \in VertexAddrs : getKey(vertex)
    \/ getSize
    \/ \E key \in Keys : removeVertex(key)
    \/ \E key_0, key_1 \in Keys : removeEdge(key_0, key_1)

Spec == Init /\ [][Next]_vars

NextData ==
    \/ \E key \in KeysData, data \in VData : addVertex(key, data)
    \/ \E key_0, key_1 \in KeysData, data \in EData : addEdge(key_0, key_1, data)
    \/ \E key \in KeysData : getVertex(key)
    \/ \E key_0, key_1 \in KeysData : getEdge(key_0, key_1)
    \/ \E vertex \in VertexAddrs : getKey(vertex)
    \/ getSize
    \/ \E key \in KeysData : removeVertex(key)
    \/ \E key_0, key_1 \in KeysData : removeEdge(key_0, key_1)

SpecData == Init /\ [][NextData]_vars
(* ---- what the properties speak of ---- *)

graph == <<vertices, size, vertexObj, edgeObj>>

(* How often the vector s lists the edge e. *)
Count(s, e) == Cardinality({i \in 1..Len(s) : s[i] = e})

(* The vertices whose vector lists e. *)
ListedBy(vo, e) == {v \in VertexAddrs : Count(vo[v].edges, e) > 0}

(* The two ends of e. *)
Ends(eo, e) == {eo[e].vertices[0], eo[e].vertices[1]}

(* The last call was op and it returned. *)
Returned(op) == last.op = op /\ last.res = "ok"

(* C1: every edge is listed exactly once by each of its two incident       *)
(* vertices and by no other vertex; no edge is listed by one vertex only.  *)
C1_EdgeListedByBothEnds ==
    \A e \in ListedEdges(vertexObj) :
        /\ Cardinality(ListedBy(vertexObj, e)) = 2
        /\ \A v \in VertexAddrs :
              Count(vertexObj[v].edges, e) = IF v \in Ends(edgeObj, e) THEN 1 ELSE 0

(* removeEdge has returned and two edges are left. *)
C1_Witness ==
    Returned("removeEdge") /\ Cardinality(ListedEdges(vertexObj)) = 2

(* C2: for every key of the map and every edge its vertex lists, that      *)
(* vertex is in one of the edge's two slots.                               *)
C2_ListedEdgeIsIncident ==
    \A k \in KeySet(vertices) :
        \A i \in 1..Len(vertexObj[vertices[k]].edges) :
            vertices[k] \in Ends(edgeObj, vertexObj[vertices[k]].edges[i])

(* removeVertex has detached an edge and another edge is left. *)
C2_Witness ==
    /\ Returned("removeVertex") /\ last.iterations >= 1
    /\ ListedEdges(vertexObj) # {}

(* C3: size, which getSize returns, is the number of entries of the map,   *)
(* whatever keys addVertex was called with.                                *)
C3_SizeIsEntryCount == size = Cardinality(KeySet(vertices))

(* No living edge has the same vertex in both slots. *)
NoSelfLoop ==
    \A e \in EdgeAddrs :
        edgeObj[e] # FreeEdge => edgeObj[e].vertices[0] # edgeObj[e].vertices[1]

(* C4: addEdge(k, k, payload) for a key k of the map fails its assert and  *)
(* changes nothing, and no edge ever has one vertex in both slots.         *)
C4_SelfLoopRejected ==
    /\ [][(/\ last'.op = "addEdge"
           /\ last'.key_0 = last'.key_1
           /\ Has(vertices, last'.key_0))
          => (last'.res = "assert" /\ UNCHANGED graph)]_vars
    /\ []NoSelfLoop

(* addEdge(k, k, payload) was called for a key of a graph that has edges. *)
C4_Witness ==
    /\ last.op = "addEdge" /\ last.key_0 = last.key_1 /\ last.res = "assert"
    /\ Has(vertices, last.key_0)
    /\ Len(vertexObj[vertices[last.key_0]].edges) >= 1

(* The five invariants of the graph; the fifth, unique keys, is what a     *)
(* map from Key gives.                                                      *)
GraphInvariants ==
    /\ C2_ListedEdgeIsIncident
    /\ C1_EdgeListedByBothEnds
    /\ NoSelfLoop
    /\ C3_SizeIsEntryCount

(* C5: a call either returns with the invariants of the graph holding, or  *)
(* fails (equal keys, a key not in the map, no edge between the vertices)  *)
(* with the map, the count and every vector as they were.                  *)
C5_AllOrNothing ==
    [][/\ last'.res = "ok" => GraphInvariants'
       /\ last'.res # "ok" => UNCHANGED graph]_vars
(* ---- C6 ---- *)

(* getEdge(key_0, key_1) returns, and returns an edge that joins the two   *)
(* vertices.                                                                *)
Joins(m, vo, eo, key_0, key_1) ==
    LET r == GetEdge(m, vo, eo, key_0, key_1)
    IN  r.res = "ok" /\ Ends(eo, r.ret) = {m[key_0], m[key_1]}

(* The payload of the edge getEdge(key_0, key_1) returns. *)
EdgeData(m, vo, eo, key_0, key_1) == eo[GetEdge(m, vo, eo, key_0, key_1).ret].data

(* C6 as claimed: right after addEdge(k0, k1, payload) on distinct keys of *)
(* the map, getEdge(k0, k1) and getEdge(k1, k0) return an edge that joins  *)
(* the two vertices and carries the payload just added.                    *)
C6_LookupReturnsAddedPayload ==
    [][(last'.op = "addEdge" /\ last'.res = "ok") =>
        LET k0 == last'.key_0
            k1 == last'.key_1
        IN  /\ Joins(vertices', vertexObj', edgeObj', k0, k1)
            /\ Joins(vertices', vertexObj', edgeObj', k1, k0)
            /\ EdgeData(vertices', vertexObj', edgeObj', k0, k1) = last'.data
            /\ EdgeData(vertices', vertexObj', edgeObj', k1, k0) = last'.data]_vars

(* C6 (amended): right after addEdge(k0, k1, payload) both lookups return  *)
(* an edge that joins the two vertices; when no edge joined them before    *)
(* the call it is the new edge, with the payload just added, and otherwise *)
(* each lookup returns the edge it returned before the call.               *)
C6_LookupAfterAddEdge ==
    [][(last'.op = "addEdge" /\ last'.res = "ok") =>
        LET k0 == last'.key_0
            k1 == last'.key_1
            before01 == GetEdge(vertices, vertexObj, edgeObj, k0, k1)
            before10 == GetEdge(vertices, vertexObj, edgeObj, k1, k0)
            after01 == GetEdge(vertices', vertexObj', edgeObj', k0, k1)
            after10 == GetEdge(vertices', vertexObj', edgeObj', k1, k0)
        IN  /\ Joins(vertices', vertexObj', edgeObj', k0, k1)
            /\ Joins(vertices', vertexObj', edgeObj', k1, k0)
            /\ before01.res = before10.res
            /\ IF before01.res = "ok"
               THEN after01.ret = before01.ret /\ after10.ret = before10.ret
               ELSE /\ after01.ret = NewEdgeAddr(edgeObj)
                    /\ after10.ret = after01.ret
                    /\ edgeObj'[after01.ret].data = last'.data]_vars

(* addEdge has added an edge between two vertices that an edge with the    *)
(* other payload joined already, and the lookup returns the older one.     *)
C6_Witness ==
    /\ Returned("addEdge")
    /\ Cardinality(ListedEdges(vertexObj)) >= 2
    /\ EdgeData(vertices, vertexObj, edgeObj, last.key_0, last.key_1) # last.data

(* ---- C7 ---- *)

(* C7: removeVertex(k) on a key of the map whose vertex has d edges takes  *)
(* k out of the map, lowers size by 1, leaves no listed edge with the      *)
(* removed vertex at an end, lowers the number of edges by exactly d, and  *)
(* leaves every other edge listed once by both of its ends.                *)
C7_RemoveVertexEffect ==
    [][(last'.op = "removeVertex" /\ last'.res = "ok") =>
        LET k == last'.key_0
            old == vertices[k]
            d == Len(vertexObj[old].edges)
            kept == {e \in ListedEdges(vertexObj) : old \notin Ends(edgeObj, e)}
        IN  /\ ~Has(vertices', k)
            /\ size' = size - 1
            /\ \A key \in KeySet(vertices') :
                  \A i \in 1..Len(vertexObj'[vertices'[key]].edges) :
                      old \notin Ends(edgeObj, vertexObj'[vertices'[key]].edges[i])
            /\ Cardinality(ListedEdges(vertexObj')) =
                  Cardinality(ListedEdges(vertexObj)) - d
            /\ ListedEdges(vertexObj') = kept
            /\ \A e \in kept :
                  /\ edgeObj'[e] = edgeObj[e]
                  /\ \A v \in VertexAddrs :
                        Count(vertexObj'[v].edges, e) =
                            IF v \in Ends(edgeObj, e) THEN 1 ELSE 0]_vars

(* removeVertex has taken a vertex with two edges out and one edge is left. *)
C7_Witness ==
    /\ Returned("removeVertex") /\ last.iterations = 2
    /\ Cardinality(ListedEdges(vertexObj)) = 1

(* ---- C8 ---- *)

(* The edges of the vector of key_0's vertex that join it to key_1's. *)
Parallel(m, vo, eo, key_0, key_1) ==
    {e \in ListedEdges(vo) :
        Count(vo[m[key_0]].edges, e) > 0 /\ m[key_1] \in Ends(eo, e)}

(* C8: removeEdge(k0, k1) on distinct keys of the map with an edge between *)
(* them makes exactly one edge object disappear, the same one from both    *)
(* vectors; of n >= 2 parallel edges n-1 remain, each still in both        *)
(* vectors, getEdge(k0, k1) still returns and both keys are still there.   *)
C8_RemoveEdgeEffect ==
    [][(last'.op = "removeEdge" /\ last'.res = "ok") =>
        LET k0 == last'.key_0
            k1 == last'.key_1
            v0 == vertices[k0]
            v1 == vertices[k1]
            par == Parallel(vertices, vertexObj, edgeObj, k0, k1)
            gone == ListedEdges(vertexObj) \ ListedEdges(vertexObj')
        IN  /\ Cardinality(gone) = 1
            /\ gone \subseteq par
            /\ ListedEdges(vertexObj') \subseteq ListedEdges(vertexObj)
            /\ \A e \in ListedEdges(vertexObj), v \in VertexAddrs :
                  Count(vertexObj'[v].edges, e) =
                      IF e \in gone THEN 0 ELSE Count(vertexObj[v].edges, e)
            /\ Has(vertices', k0) /\ Has(vertices', k1)
            /\ Cardinality(par) >= 2 =>
                  /\ Parallel(vertices', vertexObj', edgeObj', k0, k1) = par \ gone
                  /\ \A e \in par \ gone :
                        /\ edgeObj'[e] = edgeObj[e]
                        /\ Count(vertexObj'[v0].edges, e) = 1
                        /\ Count(vertexObj'[v1].edges, e) = 1
                  /\ GetEdge(vertices', vertexObj', edgeObj', k0, k1).res = "ok"]_vars

(* removeEdge has removed one of three parallel edges: two are left. *)
C8_Witness ==
    /\ Returned("removeEdge")
    /\ Cardinality(Parallel(vertices, vertexObj, edgeObj, last.key_0, last.key_1)) = 2

(* ---- C9 ---- *)

(* C9: for every key of the map, getKey(getVertex(key)) returns that key.  *)
C9_GetKeyOfGetVertex ==
    \A key \in KeySet(vertices) :
        LET vertex == GetVertex(vertices, key)
        IN  /\ vertex.res = "ok"
            /\ GetKey(vertices, vertexObj, vertex.ret) = [res |-> "ok", ret |-> key]

(* Two vertices of the map carry the same payload. *)
C9_Witness ==
    /\ Has(vertices, "A") /\ Has(vertices, "B")
    /\ vertexObj[vertices["A"]].data = vertexObj[vertices["B"]].data
    /\ GetKey(vertices, vertexObj, GetVertex(vertices, "B").ret).ret = "B"

(* ---- C10 ---- *)

(* C10: after addVertex(key, payload) the map holds under key a Vertex     *)
(* that did not exist before, with the given payload and no edges, and     *)
(* size has grown by exactly 1.                                            *)
C10_AddVertexEffect ==
    [][(last'.op = "addVertex" /\ last'.res = "ok") =>
        LET stored == vertices'[last'.key_0]
        IN  /\ Has(vertices', last'.key_0)
            /\ vertexObj[stored] = FreeVertex
            /\ vertexObj'[stored] = Vertex(last'.data)
            /\ size' = size + 1]_vars
(* ---- C11 ---- *)

(* C11: a graph as constructed has size 0; after n addVertex calls with    *)
(* pairwise distinct keys, m removeVertex calls on keys of the map and any *)
(* number of addEdge and removeEdge calls, size is n - m; addEdge and      *)
(* removeEdge change neither size nor the keys of the map.                 *)
C11_SizeCountsVertexCalls ==
    /\ [](last.op = "Graph" => size = 0)
    /\ [](history.distinct => size = history.adds - history.removes)
    /\ [][last'.op \in {"addEdge", "removeEdge"} =>
            (size' = size /\ KeySet(vertices') = KeySet(vertices))]_vars

(* Three vertices were added under distinct keys, one was removed, and an  *)
(* edge was added and removed again.                                        *)
C11_Witness ==
    /\ Returned("removeEdge")
    /\ history.distinct /\ history.adds = 3 /\ history.removes = 1
(* ---- C12 ---- *)

(* The first edge in the vector of key_0's vertex that has key_1's vertex  *)
(* at one end (there is one).                                               *)
FirstEdgeTo(m, vo, eo, key_0, key_1) ==
    LET s == vo[m[key_0]].edges
        first == CHOOSE i \in 1..Len(s) :
                    /\ m[key_1] \in Ends(eo, s[i])
                    /\ \A j \in 1..(i - 1) : m[key_1] \notin Ends(eo, s[j])
    IN  s[first]

(* C12: removeEdge(k0, k1) removes exactly the edge getEdge(k0, k1) would  *)
(* have returned just before, the first edge in the vector of k0's vertex  *)
(* with k1's vertex at an end; every other edge between the two stays in   *)
(* both vectors.                                                            *)
C12_RemovesWhatGetEdgeReturns ==
    [][(last'.op = "removeEdge" /\ last'.res = "ok") =>
        LET k0 == last'.key_0
            k1 == last'.key_1
            found == GetEdge(vertices, vertexObj, edgeObj, k0, k1)
            par == Parallel(vertices, vertexObj, edgeObj, k0, k1)
        IN  /\ found.res = "ok"
            /\ found.ret = FirstEdgeTo(vertices, vertexObj, edgeObj, k0, k1)
            /\ ListedEdges(vertexObj) \ ListedEdges(vertexObj') = {found.ret}
            /\ \A e \in par \ {found.ret} :
                  /\ Count(vertexObj'[vertices[k0]].edges, e) = 1
                  /\ Count(vertexObj'[vertices[k1]].edges, e) = 1]_vars

(* removeEdge has removed the first of two parallel edges: the one left is *)
(* the younger one.                                                         *)
C12_Witness ==
    /\ Returned("removeEdge")
    /\ Parallel(vertices, vertexObj, edgeObj, last.key_0, last.key_1) = {2}
    /\ edgeObj[1] = FreeEdge
(* ---- C13 ---- *)

(* C13: addEdge(k0, k1, payload) on distinct keys of the map makes a new   *)
(* edge object whatever edges join the two vertices already: it has the    *)
(* vertex of k0 in slot 0 and that of k1 in slot 1 and is appended as the  *)
(* last element to both vectors, which grow by one; no other entry of any  *)
(* vector changes or moves.                                                 *)
C13_AddEdgeAppends ==
    [][(last'.op = "addEdge" /\ last'.res = "ok") =>
        LET v0 == vertices[last'.key_0]
            v1 == vertices[last'.key_1]
            new == ListedEdges(vertexObj') \ ListedEdges(vertexObj)
        IN  /\ Cardinality(new) = 1
            /\ \A e \in new :
                  /\ edgeObj[e] = FreeEdge
                  /\ edgeObj'[e].vertices[0] = v0
                  /\ edgeObj'[e].vertices[1] = v1
                  /\ edgeObj'[e].data = last'.data
                  /\ vertexObj'[v0].edges = Append(vertexObj[v0].edges, e)
                  /\ vertexObj'[v1].edges = Append(vertexObj[v1].edges, e)
            /\ \A v \in VertexAddrs \ {v0, v1} : vertexObj'[v] = vertexObj[v]
            /\ \A e \in ListedEdges(vertexObj) : edgeObj'[e] = edgeObj[e]]_vars

(* addEdge has added a third edge between two vertices. *)
C13_Witness ==
    /\ Returned("addEdge")
    /\ Cardinality(Parallel(vertices, vertexObj, edgeObj, last.key_0, last.key_1)) = 3

(* ---- C14 ---- *)

(* C14: addVertex leaves every vertex of the map under its key, with its   *)
(* payload and its vector of edges in the same order, and every edge with  *)
(* its two ends.                                                            *)
C14_AddVertexFrame ==
    [][(last'.op = "addVertex" /\ last'.res = "ok") =>
        /\ \A key \in KeySet(vertices) :
              /\ vertices'[key] = vertices[key]
              /\ vertexObj'[vertices[key]] = vertexObj[vertices[key]]
        /\ \A e \in ListedEdges(vertexObj) : edgeObj'[e] = edgeObj[e]]_vars

(* addVertex was called with the key of a vertex that has an edge. *)
C14_Witness ==
    /\ Returned("addVertex")
    /\ Len(vertexObj[vertices[last.key_0]].edges) >= 1
(* ---- C15 ---- *)

(* The vectors after i passes of removeVertex's loop for old_vertex. *)
RECURSIVE AfterPasses(_, _, _, _)
AfterPasses(vo, eo, old_vertex, i) ==
    IF i = 0 THEN vo
    ELSE RemoveVertexStep(AfterPasses(vo, eo, old_vertex, i - 1), eo, old_vertex).vertexObj

(* C15: removeVertex(k) on a key of the map ends after exactly degree(k)   *)
(* passes of its loop; every pass takes the last edge of k's vector, finds *)
(* that very edge in the vector at its other end, and shortens both        *)
(* vectors by exactly one entry.                                            *)
C15_RemoveVertexLoop ==
    [][(last'.op = "removeVertex" /\ Has(vertices, last'.key_0)) =>
        LET old_vertex == vertices[last'.key_0]
            d == Len(vertexObj[old_vertex].edges)
        IN  /\ last'.res = "ok"
            /\ last'.iterations = d
            /\ \A i \in 1..d :
                  LET vo == AfterPasses(vertexObj, edgeObj, old_vertex, i - 1)
                      step == RemoveVertexStep(vo, edgeObj, old_vertex)
                      other == step.connected_vertex
                  IN  /\ step.old_edge = Back(vo[old_vertex].edges)
                      /\ step.found
                      /\ Count(vo[other].edges, step.old_edge) = 1
                      /\ Count(step.vertexObj[other].edges, step.old_edge) = 0
                      /\ other # old_vertex
                      /\ Len(step.vertexObj[old_vertex].edges) =
                            Len(vo[old_vertex].edges) - 1
                      /\ Len(step.vertexObj[other].edges) = Len(vo[other].edges) - 1
                      /\ \A v \in VertexAddrs \ {old_vertex, other} :
                            step.vertexObj[v] = vo[v]]_vars

(* removeVertex has gone three times through its loop. *)
C15_Witness == Returned("removeVertex") /\ last.iterations = 3
(* ---- C16 ---- *)

(* Two distinct keys of the map with at least one edge between them. *)
Joined(key_0, key_1) ==
    /\ key_0 # key_1 /\ Has(vertices, key_0) /\ Has(vertices, key_1)
    /\ Parallel(vertices, vertexObj, edgeObj, key_0, key_1) # {}

(* C16 as claimed: for distinct keys of the map joined by an edge,         *)
(* getEdge(k0, k1) and getEdge(k1, k0) return the same edge object, also   *)
(* with parallel edges and after removals have reordered the vectors.      *)
C16_LookupSymmetric ==
    \A k0, k1 \in Keys :
        Joined(k0, k1) =>
            LET r01 == GetEdge(vertices, vertexObj, edgeObj, k0, k1)
                r10 == GetEdge(vertices, vertexObj, edgeObj, k1, k0)
            IN  r01.res = "ok" /\ r10.res = "ok" /\ r01.ret = r10.ret

(* C16 (amended): for distinct keys of the map joined by an edge, both     *)
(* getEdge(k0, k1) and getEdge(k1, k0) return an edge that joins the two   *)
(* vertices, and the same edge object when exactly one edge joins them;    *)
(* with parallel edges the two may differ.                                  *)
C16_LookupEitherWay ==
    \A k0, k1 \in Keys :
        Joined(k0, k1) =>
            LET r01 == GetEdge(vertices, vertexObj, edgeObj, k0, k1)
                r10 == GetEdge(vertices, vertexObj, edgeObj, k1, k0)
                par == Parallel(vertices, vertexObj, edgeObj, k0, k1)
            IN  /\ r01.res = "ok" /\ r10.res = "ok"
                /\ r01.ret \in par /\ r10.ret \in par
                /\ par = Parallel(vertices, vertexObj, edgeObj, k1, k0)
                /\ Cardinality(par) = 1 => r01.ret = r10.ret

(* A removal has reordered a vector: two parallel edges join A and B, and  *)
(* the lookup from A returns one, the lookup from B the other.             *)
C16_Witness ==
    /\ Returned("removeEdge")
    /\ Joined("A", "B")
    /\ GetEdge(vertices, vertexObj, edgeObj, "A", "B").ret #
          GetEdge(vertices, vertexObj, edgeObj, "B", "A").ret

(* ---- C17 ---- *)

(* How many edges with payload data the vector of v lists, for each data. *)
Payloads(vo, eo, v) ==
    [data \in EData |->
        Cardinality({i \in 1..Len(vo[v].edges) : eo[vo[v].edges[i]].data = data})]

(* The heap as it was before the addEdge call c, which returned and which  *)
(* no other call has followed: the new edge is the last one of both        *)
(* vectors.                                                                 *)
BeforeAddEdge(m, vo, eo, c) ==
    LET vertex_0 == m[c.key_0]
        vertex_1 == m[c.key_1]
        new_edge == Back(vo[vertex_0].edges)
    IN  [new_edge |-> new_edge,
         vertexObj |-> [vo EXCEPT ![vertex_0].edges = pop_back(@),
                                  ![vertex_1].edges = pop_back(@)],
         edgeObj |-> [eo EXCEPT ![new_edge] = FreeEdge]]

(* The vector s with new_edge where old_edge was. *)
Replaced(s, old_edge, new_edge) ==
    [i \in 1..Len(s) |-> IF s[i] = old_edge THEN new_edge ELSE s[i]]

(* removeEdge(k0, k1) is the call that follows addEdge(k0, k1, data). *)
RoundTripStep ==
    /\ last.op = "addEdge" /\ last.res = "ok"
    /\ last'.op = "removeEdge"
    /\ last'.key_0 = last.key_0 /\ last'.key_1 = last.key_1

(* C17 as claimed: addEdge(k0, k1, payload) followed at once by            *)
(* removeEdge(k0, k1) leaves every vertex with the same multiset of edge   *)
(* payloads as before the addEdge.                                          *)
C17_RoundTrip ==
    [][RoundTripStep =>
        LET before == BeforeAddEdge(vertices, vertexObj, edgeObj, last)
        IN  /\ last'.res = "ok"
            /\ \A v \in VertexAddrs :
                  Payloads(vertexObj', edgeObj', v) =
                      Payloads(before.vertexObj, before.edgeObj, v)]_vars

(* C17 (amended): addEdge(k0, k1, payload) followed at once by             *)
(* removeEdge(k0, k1) returns and leaves the map and size alone.  When no  *)
(* edge joined k0 and k1 before the addEdge, every vector and every edge   *)
(* is as it was before.  Otherwise the edge that goes is the one           *)
(* getEdge(k0, k1) returned before the addEdge, the new edge stands in its *)
(* place in both vectors, and the payloads of a vertex are those of before *)
(* exactly when the two edges carry the same payload.                      *)
C17_RoundTripEffect ==
    [][RoundTripStep =>
        LET k0 == last.key_0
            k1 == last.key_1
            before == BeforeAddEdge(vertices, vertexObj, edgeObj, last)
            first == GetEdge(vertices, before.vertexObj, before.edgeObj, k0, k1)
        IN  /\ AddEdgeHeap(vertices, before.vertexObj, before.edgeObj, k0, k1, last.data)
                  = [vertexObj |-> vertexObj, edgeObj |-> edgeObj]
            /\ last'.res = "ok"
            /\ vertices' = vertices /\ size' = size
            /\ IF first.res # "ok"
               THEN vertexObj' = before.vertexObj /\ edgeObj' = before.edgeObj
               ELSE /\ first.ret # before.new_edge
                    /\ \A v \in VertexAddrs :
                          /\ vertexObj'[v].data = before.vertexObj[v].data
                          /\ vertexObj'[v].edges =
                                Replaced(before.vertexObj[v].edges, first.ret,
                                         before.new_edge)
                    /\ edgeObj' = [edgeObj EXCEPT ![first.ret] = FreeEdge]
                    /\ edgeObj'[before.new_edge].data = last.data
                    /\ (\A v \in VertexAddrs :
                           Payloads(vertexObj', edgeObj', v) =
                               Payloads(before.vertexObj, before.edgeObj, v))
                          <=> before.edgeObj[first.ret].data = last.data]_vars

(* removeEdge(k0, k1) has followed addEdge(k0, k1, "y") and one edge is   *)
(* left, between k0 and k1, with payload y: an edge joined them before the *)
(* addEdge, and the new edge has taken the place of the one removed.       *)
C17_Witness ==
    /\ Returned("removeEdge")
    /\ undone.op = "addEdge" /\ undone.data = "y"
    /\ Cardinality(ListedEdges(vertexObj)) = 1
    /\ EdgeData(vertices, vertexObj, edgeObj, last.key_0, last.key_1) = "y"
====
